---- MODULE Spec2Model ----
(***************************************************************************)
(* Model of docker-swarm-secrets: the SecretReader class (reader/secret-    *)
(* reader), the DSSReader class (reader/dss-reader), and the default        *)
(* interpreter libraries they plug in.  One read operation is in flight at  *)
(* a time; the secrets directory is an external collaborator that other     *)
(* processes may change between any two steps of an operation.              *)
(***************************************************************************)
EXTENDS Integers, Sequences, FiniteSets, TLC

(***************************************************************************)
(* Bounds                                                                   *)
(***************************************************************************)
\* number of secret names a single-name read can ask for
MaxNames == 1
\* number of secret names that may appear in the secrets directory of a bulk read
MaxDirNames == 2
\* longest interpreter list handed to a bulk read
MaxInterpreters == 2
\* latest clock value Date.now() is observed at
MaxNow == 3

AllNames == <<"a.json", "b", "c", "d.json">>
Names == {AllNames[i] : i \in 1..MaxNames}
DirNames == {AllNames[i] : i \in 1..MaxDirNames}

\* file contents (bytes, written as the utf8 text they encode)
Contents == {"x", "{\"secret\":1}"}
\* errno codes of a failed readFile / readdir
ErrCodes == {"ENOENT", "EACCES"}
FileStates == Contents \cup ErrCodes
\* file states of the directory a bulk read lists
DirFileStates == {"x"} \cup ErrCodes
DirStates == {"ok", "ENOENT", "EACCES"}
\* file states the default interpreters are exercised on: empty, plain text,
\* and JSON texts of two objects, a number and null
LibContents == {"", "x", "{\"a\":1}", "{\"secret\":1}", "0", "null"}
LibFileStates == LibContents \cup ErrCodes
\* environment variables an interpreter may name, and the values they are set to
EnvVars == {"SECRET_OVERRIDE"}
EnvValues == {"X"}

(***************************************************************************)
(* JavaScript values                                                        *)
(***************************************************************************)
Undefined == [t |-> "undefined"]
Null == [t |-> "null"]
Buffer(c) == [t |-> "buffer", bytes |-> c]
Text(c) == [t |-> "string", text |-> c]
Num(n) == [t |-> "number", n |-> n]
Bool(b) == [t |-> "boolean", b |-> b]
Promise(v) == [t |-> "promise", value |-> v]
Function(f) == [t |-> "function", fn |-> f]
Obj(p) == [t |-> "object", props |-> p]
Error(c) == [t |-> "error", code |-> c]
\* a promise that was rejected
Rejected(e) == [t |-> "promise", rejected |-> e]

\* completion of a call: a returned value or a thrown error
Ok(v) == [ok |-> TRUE, val |-> v]
Throw(e) == [ok |-> FALSE, err |-> e]

RawSecret(n, d) == [name |-> n, data |-> d]

\* typeof v
TypeOf(v) ==
    CASE v.t = "undefined" -> "undefined"
      [] v.t = "string" -> "string"
      [] v.t = "number" -> "number"
      [] v.t = "function" -> "function"
      [] OTHER -> "object"

\* Object.keys(v): throws on null and undefined; a Buffer has index keys only,
\* a Promise and an Error have no own enumerable keys
ObjectKeys(v) ==
    CASE v.t \in {"null", "undefined"} -> Throw(Error("TypeError"))
      [] v.t = "object" -> Ok(DOMAIN v.props)
      [] v.t = "buffer" -> Ok({ToString(i) : i \in 0..(Len(v.bytes) - 1)})
      [] OTHER -> Ok({})

\* !v
Falsy(v) ==
    \/ v.t \in {"undefined", "null"}
    \/ v.t = "string" /\ v.text = ""
    \/ v.t = "number" /\ v.n = 0
    \/ v.t = "boolean" /\ ~v.b

\* JSON.parse(text)
JSONParse(text) ==
    CASE text = "{\"secret\":1}" -> Ok(Obj([secret |-> Num(1)]))
      [] text = "{\"a\":1}" -> Ok(Obj([a |-> Num(1)]))
      [] text = "0" -> Ok(Num(0))
      [] text = "null" -> Ok(Null)
      [] text = "false" -> Ok(Bool(FALSE))
      [] OTHER -> Throw(Error("SyntaxError"))

\* data?.toString(encoding)
ToText(data) == IF data = Undefined THEN Undefined ELSE Text(data.bytes)

(***************************************************************************)
(* Default interpreter libraries                                            *)
(***************************************************************************)
\* DefaultInterpretersSync.asBuffer()(rawSecret)
DefaultInterpretersSync_asBuffer(rawSecret) == Ok(rawSecret.data)

\* DefaultInterpretersSync.asText(encoding)(rawSecret)
DefaultInterpretersSync_asText(rawSecret) == Ok(ToText(rawSecret.data))

\* asJSON with a catch that returns the text that failed to parse
DefaultInterpretersSync_asJSON_CatchReturnsText(rawSecret) ==
    LET text == ToText(rawSecret.data) IN
    IF Falsy(text) THEN Ok(Undefined)
    ELSE IF JSONParse(text.text).ok THEN JSONParse(text.text)
    ELSE Ok(text)

\* DefaultInterpretersSync.asJSON(encoding)(rawSecret)
DefaultInterpretersSync_asJSON(rawSecret) ==
    LET text == ToText(rawSecret.data) IN
    IF Falsy(text) THEN Ok(Undefined)
    ELSE IF JSONParse(text.text).ok THEN JSONParse(text.text)
    ELSE Ok(Undefined)

\* DefaultInterpretersSync.asTextOrJSON(encoding)(rawSecret)
DefaultInterpretersSync_asTextOrJSON(rawSecret) ==
    LET text == ToText(rawSecret.data) IN
    IF Falsy(text) THEN Ok(Undefined)
    ELSE IF JSONParse(text.text).ok THEN JSONParse(text.text)
    ELSE Ok(text)

\* DefaultInterpreters.asBuffer()(rawSecret) of interpreters/default-interpreters,
\* the non-blocking library SecretReader imports: the non-blocking form of
\* asBuffer, data unchanged, delivered through a promise
DefaultInterpretersAsync_asBuffer(rawSecret) == Ok(Promise(rawSecret.data))

\* DefaultInterpreters.asBuffer()(rawSecret) of interpreters/interpreters,
\* the library DSSReader imports
DefaultInterpreters_asBuffer(rawSecret) == Ok(rawSecret.data)

\* DefaultInterpreters.asText(encoding)(rawSecret)
DefaultInterpreters_asText(rawSecret) == Ok(ToText(rawSecret.data))

\* DefaultInterpreters.asJSON(encoding)(rawSecret)
DefaultInterpreters_asJSON(rawSecret) ==
    LET text == ToText(rawSecret.data) IN
    IF Falsy(text) THEN Ok(Undefined)
    ELSE IF JSONParse(text.text).ok THEN JSONParse(text.text)
    ELSE Ok(Undefined)

\* DefaultInterpreters.asTextOrJSON(encoding)(rawSecret)
DefaultInterpreters_asTextOrJSON(rawSecret) ==
    LET text == ToText(rawSecret.data) IN
    IF Falsy(text) THEN Ok(Undefined)
    ELSE IF JSONParse(text.text).ok THEN JSONParse(text.text)
    ELSE Ok(text)

(***************************************************************************)
(* Functions a caller can hand to a reader                                  *)
(***************************************************************************)
\* caller-written interpreters: (rawSecret) => T | Secret<T> | Promise<...>
CustomInterpreter(id, rawSecret) ==
    CASE id = "asyncText" -> Ok(Promise(ToText(rawSecret.data)))
      [] id = "annotate0" ->
            Ok(Obj([secret |-> ToText(rawSecret.data), cacheFor |-> Num(0)]))
      [] id = "annotate1" ->
            Ok(Obj([secret |-> ToText(rawSecret.data), cacheFor |-> Num(1)]))
      [] id = "asyncAnnotate0" ->
            Ok(Promise(Obj([secret |-> ToText(rawSecret.data), cacheFor |-> Num(0)])))
      [] id = "annotateNegative" ->
            Ok(Obj([secret |-> ToText(rawSecret.data), cacheFor |-> Num(-1)]))
      [] id = "annotateOnly" -> Ok(Obj([secret |-> ToText(rawSecret.data)]))
      [] id = "annotateEnv" ->
            Ok(Obj([secret |-> ToText(rawSecret.data), cacheFor |-> Num(0),
                    envOverrideRaw |-> Text("SECRET_OVERRIDE")]))
      [] id = "returnsNull" -> Ok(Null)
      [] id = "throws" -> Throw(Error("InterpreterError"))
      [] id = "asyncRejects" -> Ok(Rejected(Error("InterpreterError")))

\* f(rawSecret) for a JavaScript value f
CallFunction(f, rawSecret) ==
    IF f.t # "function" THEN Throw(Error("TypeError"))
    ELSE CASE f.fn = "asBuffer" -> DefaultInterpretersSync_asBuffer(rawSecret)
           [] f.fn = "asText" -> DefaultInterpretersSync_asText(rawSecret)
           [] f.fn = "asJSON" -> DefaultInterpretersSync_asJSON(rawSecret)
           [] f.fn = "asTextOrJSON" -> DefaultInterpretersSync_asTextOrJSON(rawSecret)
           [] f.fn = "asBufferAsync" -> DefaultInterpretersAsync_asBuffer(rawSecret)
           [] f.fn = "DSS.asBuffer" -> DefaultInterpreters_asBuffer(rawSecret)
           [] f.fn = "DSS.asText" -> DefaultInterpreters_asText(rawSecret)
           [] f.fn = "DSS.asJSON" -> DefaultInterpreters_asJSON(rawSecret)
           [] f.fn = "DSS.asTextOrJSON" -> DefaultInterpreters_asTextOrJSON(rawSecret)
           \* the factory itself, called with an argument it ignores
           [] f.fn = "DSS.asBufferFactory" -> Ok(Function("DSS.asBuffer"))
           [] OTHER -> CustomInterpreter(f.fn, rawSecret)

Predicates == {"nameIsJson", "hasData"}

\* caller-written predicates: (rawSecret) => boolean
CallPredicate(p, rawSecret) ==
    CASE p = "nameIsJson" ->
            /\ Len(rawSecret.name) >= 5
            /\ SubSeq(rawSecret.name, Len(rawSecret.name) - 4, Len(rawSecret.name)) = ".json"
      [] p = "hasData" -> rawSecret.data # Undefined

\* an entry of an interpreter list; "none" is a key the object does not have
Entry(i, p, q) == [t |-> "object", interpreter |-> i, predicate |-> p, prediacte |-> q]

(***************************************************************************)
(* State                                                                    *)
(***************************************************************************)
VARIABLES
    fs,            \* secrets directory: name -> content, or the errno readFile fails with
    dir,           \* "ok", or the errno readdir fails with
    now,           \* Date.now()
    secretsCache,  \* SecretReader.secretsCache
    env,           \* process.env
    caches,        \* secretsCache of each SecretReader instance (concurrent reads)
    reads,         \* the concurrent read() calls: position, arguments, completion
    pc,            \* position of the operation in flight
    op,            \* the operation in flight
    name,          \* its name argument (single-name operations)
    arg,           \* its interpreter / interpreters argument
    interpreters,  \* the normalised interpreter list (bulk operations)
    todo,          \* names of the listing not yet visited (bulk operations)
    result,        \* the result under construction (bulk operations)
    outcome,       \* how the operation completed
    log            \* filesystem accesses, predicate and interpreter calls of the operation

vars == <<fs, dir, now, secretsCache, env, caches, reads, pc, op, name, arg, interpreters, todo, result, outcome, log>>

None == [ok |-> TRUE, val |-> [t |-> "pending"]]
\* two SecretReader instances, and two read() calls that may be in flight together
Readers == {"A", "B"}
Calls == {1, 2}
\* a read() call that has not been made
IdleRead == [pc |-> "idle", reader |-> "none", name |-> "", arg |-> Undefined,
             outcome |-> None, log |-> <<>>, overlap |-> FALSE]
EmptyMap == [n \in {} |-> Undefined]
Put(m, k, v) == [x \in DOMAIN m \cup {k} |-> IF x = k THEN v ELSE m[x]]

ReadFileEvent(n, os, ret) == [k |-> "readFile", name |-> n, os |-> os, ret |-> ret]
ReaddirEvent(os, ret) == [k |-> "readdir", os |-> os, ret |-> ret]
PredicateEvent(i, raw, ret) == [k |-> "predicate", idx |-> i, raw |-> raw, ret |-> ret]
InterpreterEvent(i, f, raw, ret) == [k |-> "interpreter", idx |-> i, f |-> f, raw |-> raw, ret |-> ret]
ShapeTestEvent(test, v, ret) == [k |-> "isDSSInterpretation", test |-> test, v |-> v, ret |-> ret]

(***************************************************************************)
(* SecretReader: the accessor                                               *)
(***************************************************************************)
\* fs.promises.readFile / fs.readFileSync on path.join(secretsDirectory, n)
FsReadFile(n) ==
    IF fs[n] \notin ErrCodes THEN Ok(Buffer(fs[n])) ELSE Throw(Error(fs[n]))

\* readSecretFile without its catch: a missing file is an error
readSecretFile_NoCatch(n) == FsReadFile(n)

\* SecretReader.readSecretFile
readSecretFile(n) ==
    IF FsReadFile(n).ok THEN FsReadFile(n)
    ELSE IF FsReadFile(n).err.code = "ENOENT" THEN Ok(Undefined)
    ELSE Throw(FsReadFile(n).err)

\* readSecretFileSync with a catch that swallows every error
readSecretFileSync_CatchAll(n) ==
    IF FsReadFile(n).ok THEN FsReadFile(n) ELSE Ok(Undefined)

\* SecretReader.readSecretFileSync
readSecretFileSync(n) ==
    IF FsReadFile(n).ok THEN FsReadFile(n)
    ELSE IF FsReadFile(n).err.code = "ENOENT" THEN Ok(Undefined)
    ELSE Throw(FsReadFile(n).err)

\* SecretReader.isSecretObject
isSecretObject(secret) ==
    IF TypeOf(secret) # "object" THEN Ok(FALSE)
    ELSE IF ~ObjectKeys(secret).ok THEN ObjectKeys(secret)
    ELSE Ok("secret" \in ObjectKeys(secret).val)

\* o.p for an object o: undefined when o has no such property
Prop(o, p) ==
    IF o.t = "object" /\ p \in DOMAIN o.props THEN o.props[p] ELSE Undefined

(***************************************************************************)
(* SecretReader: single-name reads                                          *)
(***************************************************************************)
SingleInterpreters ==
    {Undefined} \cup {Function(f) : f \in {"asBuffer", "asJSON", "asBufferAsync", "asyncText",
                                           "annotate0", "annotate1", "asyncAnnotate0",
                                           "annotateNegative", "annotateOnly", "annotateEnv",
                                           "returnsNull", "throws", "asyncRejects"}}

\* the shape test read() applies to the interpreter's return value.  read()
\* calls this.isDSSInterpretation, a method the class does not define: the
\* emitted JavaScript throws a TypeError there; with the call bound to the
\* class's shape test it is isSecretObject.
ShapeTests == {"undefined method", "isSecretObject"}
isDSSInterpretation(test, v) ==
    IF test = "isSecretObject" THEN isSecretObject(v) ELSE Throw(Error("TypeError"))

\* the cache write of read() keeping an entry that is already there
CacheWrite_KeepExisting(cache, n, data, interpreterResult) ==
    LET cacheFor == Prop(interpreterResult, "cacheFor") IN
    IF cacheFor # Undefined /\ cacheFor.t = "number" /\ cacheFor.n >= 0 /\ n \notin DOMAIN cache
    THEN Put(cache, n,
             [name |-> n, data |-> data, secret |-> Prop(interpreterResult, "secret"),
              expiresAt |-> IF Falsy(cacheFor) THEN 0 ELSE now + cacheFor.n])
    ELSE cache

\* the entry read() writes to the cache of its instance, or the cache unchanged
CacheWrite(cache, n, data, interpreterResult) ==
    LET cacheFor == Prop(interpreterResult, "cacheFor") IN
    IF cacheFor # Undefined /\ cacheFor.t = "number" /\ cacheFor.n >= 0
    THEN Put(cache, n,
             [name |-> n, data |-> data, secret |-> Prop(interpreterResult, "secret"),
              expiresAt |-> IF Falsy(cacheFor) THEN 0 ELSE now + cacheFor.n])
    ELSE cache

\* the entry read() writes to secretsCache, or the cache unchanged
CacheAfterRead(n, data, interpreterResult) ==
    CacheWrite(secretsCache, n, data, interpreterResult)

\* SecretReader.read, up to the await of readSecretFile
ReadCall(n, interpreter) ==
    /\ pc = "idle"
    /\ pc' = "read_await"
    /\ op' = "read"
    /\ name' = n
    /\ arg' = interpreter
    /\ UNCHANGED <<caches, reads, env, fs, dir, now, secretsCache, interpreters, todo, result, outcome, log>>

\* SecretReader.read, from the completion of readSecretFile to the return
ReadResume(test) ==
    /\ pc = "read_await"
    /\ pc' = "done"
    /\ LET file == readSecretFile(name)
           fileEvent == ReadFileEvent(name, FsReadFile(name), file) IN
       IF ~file.ok
       THEN /\ outcome' = file
            /\ log' = log \o <<fileEvent>>
            /\ UNCHANGED secretsCache
       ELSE LET data == file.val
                f == IF arg = Undefined THEN Function("asBufferAsync") ELSE arg
                interpreterResult == CallFunction(f, RawSecret(name, data))
                interpEvent == InterpreterEvent(0, f, RawSecret(name, data), interpreterResult) IN
            IF ~interpreterResult.ok
            THEN /\ log' = log \o <<fileEvent, interpEvent>>
                 /\ outcome' = interpreterResult
                 /\ UNCHANGED secretsCache
            ELSE LET annotated == isDSSInterpretation(test, interpreterResult.val) IN
                 /\ log' = log \o <<fileEvent, interpEvent,
                                    ShapeTestEvent(test, interpreterResult.val, annotated)>>
                 /\ IF ~annotated.ok
                    THEN /\ outcome' = annotated
                         /\ UNCHANGED secretsCache
                    ELSE IF annotated.val
                    THEN /\ secretsCache' = CacheAfterRead(name, data, interpreterResult.val)
                         /\ outcome' = Ok(Obj([name |-> Text(name), data |-> data,
                                               secret |-> Prop(interpreterResult.val, "secret")]))
                    ELSE /\ UNCHANGED secretsCache
                         /\ outcome' = Ok(Obj([name |-> Text(name), data |-> data,
                                               secret |-> interpreterResult.val]))
    /\ UNCHANGED <<caches, reads, env, fs, dir, now, op, name, arg, interpreters, todo, result>>

\* SecretReader.readSecretSync
ReadSecretSync(n, interpreter) ==
    /\ pc = "idle"
    /\ pc' = "done"
    /\ op' = "readSecretSync"
    /\ name' = n
    /\ arg' = interpreter
    /\ LET file == readSecretFileSync(n)
           fileEvent == ReadFileEvent(n, FsReadFile(n), file) IN
       IF ~file.ok
       THEN /\ outcome' = file
            /\ log' = log \o <<fileEvent>>
       ELSE LET f == IF interpreter = Undefined THEN Function("asBuffer") ELSE interpreter
                interpreterResult == CallFunction(f, RawSecret(n, file.val)) IN
            /\ outcome' = interpreterResult
            /\ log' = log \o <<fileEvent,
                               InterpreterEvent(0, f, RawSecret(n, file.val), interpreterResult)>>
    /\ UNCHANGED <<caches, reads, env, fs, dir, now, secretsCache, interpreters, todo, result>>

(***************************************************************************)
(* SecretReader: read() calls in flight together, on one or two instances   *)
(***************************************************************************)
\* the name the concurrent reads ask for
SharedName == "a.json"

\* no interpreter, and one that asks for its result to be cached
ConcurrentInterpreters == {Undefined, Function("annotate0")}

\* a cache shared by every instance, as a static field would be
WithCache_Static(r, cache) == [x \in Readers |-> cache]

\* this.secretsCache = cache, on the instance r
WithCache(r, cache) == [caches EXCEPT ![r] = cache]

\* read() from the completion of readSecretFile to its return, on an instance
\* whose cache is cache: the completion, the calls made, the cache afterwards
ReadCompletion(cache, n, interpreter, test) ==
    LET file == readSecretFile(n)
        fileEvent == ReadFileEvent(n, FsReadFile(n), file) IN
    IF ~file.ok
    THEN [outcome |-> file, log |-> <<fileEvent>>, cache |-> cache]
    ELSE LET data == file.val
             f == IF interpreter = Undefined THEN Function("asBufferAsync") ELSE interpreter
             interpreterResult == CallFunction(f, RawSecret(n, data))
             interpEvent == InterpreterEvent(0, f, RawSecret(n, data), interpreterResult) IN
         IF ~interpreterResult.ok
         THEN [outcome |-> interpreterResult, log |-> <<fileEvent, interpEvent>>, cache |-> cache]
         ELSE LET annotated == isDSSInterpretation(test, interpreterResult.val)
                  events == <<fileEvent, interpEvent,
                              ShapeTestEvent(test, interpreterResult.val, annotated)>> IN
              IF ~annotated.ok
              THEN [outcome |-> annotated, log |-> events, cache |-> cache]
              ELSE IF annotated.val
              THEN [outcome |-> Ok(Obj([name |-> Text(n), data |-> data,
                                        secret |-> Prop(interpreterResult.val, "secret")])),
                    log |-> events,
                    cache |-> CacheWrite(cache, n, data, interpreterResult.val)]
              ELSE [outcome |-> Ok(Obj([name |-> Text(n), data |-> data,
                                        secret |-> interpreterResult.val])),
                    log |-> events,
                    cache |-> cache]

\* the call c: read(n, interpreter) on the instance r, up to the await of
\* readSecretFile; overlap records that another call was awaiting then
ConcurrentReadCall(c, r, n, interpreter) ==
    /\ reads[c].pc = "idle"
    /\ reads' = [reads EXCEPT ![c] =
                    [pc |-> "read_await", reader |-> r, name |-> n, arg |-> interpreter,
                     outcome |-> None, log |-> <<>>,
                     overlap |-> \E d \in Calls \ {c} : reads[d].pc = "read_await"]]
    /\ UNCHANGED <<caches, env, fs, dir, now, secretsCache, pc, op, name, arg, interpreters,
                   todo, result, outcome, log>>

\* the call c from the completion of readSecretFile to the return
ConcurrentReadResume(c, test) ==
    /\ reads[c].pc = "read_await"
    /\ LET r == reads[c].reader
           completion == ReadCompletion(caches[r], reads[c].name, reads[c].arg, test) IN
       /\ reads' = [reads EXCEPT ![c].pc = "done",
                                 ![c].outcome = completion.outcome,
                                 ![c].log = completion.log]
       /\ caches' = WithCache(r, completion.cache)
    /\ UNCHANGED <<env, fs, dir, now, secretsCache, pc, op, name, arg, interpreters,
                   todo, result, outcome, log>>

\* the caller of the call c has consumed its completion
ConcurrentReturn(c) ==
    /\ reads[c].pc = "done"
    /\ reads' = [reads EXCEPT ![c] = IdleRead]
    /\ UNCHANGED <<caches, env, fs, dir, now, secretsCache, pc, op, name, arg, interpreters,
                   todo, result, outcome, log>>

(***************************************************************************)
(* SecretReader: bulk reads                                                 *)
(***************************************************************************)
Array(items) == [t |-> "array", items |-> items]

\* Array.isArray(v)
IsArray(v) == v.t = "array"

\* candidate.predicate ("none": undefined)
GetPredicate(candidate) ==
    IF "predicate" \in DOMAIN candidate THEN candidate.predicate ELSE "none"

\* candidate.interpreter
GetInterpreter(candidate) ==
    IF "interpreter" \in DOMAIN candidate THEN candidate.interpreter ELSE Undefined

\* fs.promises.readdir / fs.readdirSync on secretsDirectory: the names are
\* delivered in an order the platform chooses
Orders(S) ==
    {s \in [1..Cardinality(S) -> S] : \A i, j \in 1..Cardinality(S) : s[i] = s[j] => i = j}
FsReaddir ==
    IF dir = "ok"
    THEN {Ok(Array(s)) : s \in Orders({n \in DOMAIN fs : fs[n] # "ENOENT"})}
    ELSE {Throw(Error(dir))}

\* readSecrets: interpreters ?? [{interpreter: asBuffer()}], wrapped in a list
\* unless it is one
NormalizeAsync(interps) ==
    LET given == IF interps = Undefined
                 THEN Array(<<Entry(Function("asBufferAsync"), "none", "none")>>)
                 ELSE interps IN
    IF ~IsArray(given) THEN <<given>> ELSE given.items

\* readSecretsSync: a non-list argument becomes the interpreter of one entry
NormalizeSync(interps) ==
    IF ~IsArray(interps)
    THEN <<[t |-> "object",
            interpreter |-> IF interps = Undefined THEN Function("asBuffer") ELSE interps]>>
    ELSE interps.items

\* the inner for loop reading a key the entries do not have: every candidate matches
ScanCandidates_NoPredicate(list, raw, i) ==
    [events |-> <<>>, idx |-> IF i > Len(list) THEN 0 ELSE i]

\* the inner for loop falling back to the last candidate when none matches
ScanCandidates_Fallback(list, raw, i) ==
    LET matching == {j \in i..Len(list) :
                        \/ GetPredicate(list[j]) = "none"
                        \/ CallPredicate(GetPredicate(list[j]), raw)} IN
    [events |-> <<>>,
     idx |-> IF matching = {} THEN Len(list)
             ELSE CHOOSE j \in matching : \A m \in matching : j <= m]

\* the inner for loop without its break: the predicate of every candidate is
\* called, the first match is kept
ScanCandidates_NoBreak(list, raw, i) ==
    LET predicated == {j \in i..Len(list) : GetPredicate(list[j]) # "none"}
        matching == {j \in i..Len(list) :
                        \/ GetPredicate(list[j]) = "none"
                        \/ CallPredicate(GetPredicate(list[j]), raw)}
        event(j) == PredicateEvent(j, raw, CallPredicate(GetPredicate(list[j]), raw)) IN
    [events |-> [k \in 1..Cardinality(predicated) |->
                    event(CHOOSE j \in predicated :
                              Cardinality({m \in predicated : m < j}) = k - 1)],
     idx |-> IF matching = {} THEN 0
             ELSE CHOOSE j \in matching : \A m \in matching : j <= m]

\* the inner for loop of readSecrets / readSecretsSync up to the matching
\* candidate: the predicate calls made and the index of the match (0: none)
RECURSIVE ScanCandidates(_, _, _)
ScanCandidates(list, raw, i) ==
    IF i > Len(list) THEN [events |-> <<>>, idx |-> 0]
    ELSE LET predicate == GetPredicate(list[i]) IN
         IF predicate = "none" THEN [events |-> <<>>, idx |-> i]
         ELSE LET holds == CallPredicate(predicate, raw)
                  event == PredicateEvent(i, raw, holds) IN
              IF holds THEN [events |-> <<event>>, idx |-> i]
              ELSE LET rest == ScanCandidates(list, raw, i + 1) IN
                   [events |-> <<event>> \o rest.events, idx |-> rest.idx]

BulkInterpreters == {Function("asBuffer"), Function("asText")}
\* unconditional entries of either interpreter, conditional entries of asText
BulkEntries ==
    {Entry(f, "none", "none") : f \in BulkInterpreters}
        \cup {Entry(Function("asText"), p, "none") : p \in Predicates}
BulkLists == UNION {[1..k -> BulkEntries] : k \in 0..MaxInterpreters}
BulkArgs == {Undefined} \cup BulkInterpreters \cup BulkEntries \cup {Array(l) : l \in BulkLists}

\* SecretReader.readSecrets / readSecretsSync, up to the directory listing
BulkCall(o, interps) ==
    /\ pc = "idle"
    /\ pc' = "bulk_list"
    /\ op' = o
    /\ arg' = interps
    /\ interpreters' = IF o = "readSecrets" THEN NormalizeAsync(interps) ELSE NormalizeSync(interps)
    /\ result' = EmptyMap
    /\ UNCHANGED <<caches, reads, env, fs, dir, now, secretsCache, name, todo, outcome, log>>

\* the directory listing of readSecrets / readSecretsSync
BulkList ==
    /\ pc = "bulk_list"
    /\ \E listing \in FsReaddir :
          /\ log' = log \o <<ReaddirEvent(listing, listing)>>
          /\ IF ~listing.ok
             THEN /\ pc' = "done"
                  /\ outcome' = listing
                  /\ UNCHANGED todo
             ELSE IF listing.val.items = <<>>
             THEN /\ pc' = "done"
                  /\ outcome' = Ok(Obj(result))
                  /\ UNCHANGED todo
             ELSE /\ pc' = "bulk_loop"
                  /\ todo' = listing.val.items
                  /\ UNCHANGED outcome
    /\ UNCHANGED <<caches, reads, env, fs, dir, now, secretsCache, op, name, arg, interpreters, result>>

\* one iteration of the for loop over the listing, and the return after the last
BulkStep ==
    /\ pc = "bulk_loop"
    /\ LET n == Head(todo)
           file == IF op = "readSecrets" THEN readSecretFile(n) ELSE readSecretFileSync(n)
           fileEvent == ReadFileEvent(n, FsReadFile(n), file) IN
       IF ~file.ok
       THEN /\ pc' = "done"
            /\ outcome' = file
            /\ log' = log \o <<fileEvent>>
            /\ UNCHANGED <<todo, result>>
       ELSE LET raw == RawSecret(n, file.val)
                scan == ScanCandidates(interpreters, raw, 1)
                f == GetInterpreter(interpreters[scan.idx])
                secret == CallFunction(f, raw) IN
            IF scan.idx = 0
            THEN /\ log' = log \o <<fileEvent>> \o scan.events
                 /\ todo' = Tail(todo)
                 /\ UNCHANGED result
                 /\ pc' = IF Tail(todo) = <<>> THEN "done" ELSE "bulk_loop"
                 /\ outcome' = IF Tail(todo) = <<>> THEN Ok(Obj(result)) ELSE outcome
            ELSE /\ log' = log \o <<fileEvent>> \o scan.events
                             \o <<InterpreterEvent(scan.idx, f, raw, secret)>>
                 /\ IF ~secret.ok
                    THEN /\ pc' = "done"
                         /\ outcome' = secret
                         /\ UNCHANGED <<todo, result>>
                    ELSE /\ todo' = Tail(todo)
                         /\ result' = Put(result, n,
                                          IF op = "readSecrets"
                                          THEN Obj([name |-> Text(n), data |-> file.val,
                                                    secret |-> secret.val])
                                          ELSE secret.val)
                         /\ pc' = IF Tail(todo) = <<>> THEN "done" ELSE "bulk_loop"
                         /\ outcome' = IF Tail(todo) = <<>> THEN Ok(Obj(result')) ELSE outcome
    /\ UNCHANGED <<caches, reads, env, fs, dir, now, secretsCache, op, name, arg, interpreters>>

(***************************************************************************)
(* DSSReader                                                                *)
(***************************************************************************)
\* DSSReader.readFileIgnoreMissing: the promise of readFile is returned from
\* inside the try without being awaited, so a rejection never enters the catch
readFileIgnoreMissing(n) == FsReadFile(n)

\* DSSReader.readFileIgnoreMissingSync
readFileIgnoreMissingSync(n) ==
    IF FsReadFile(n).ok THEN FsReadFile(n)
    ELSE IF FsReadFile(n).err.code # "ENOENT" THEN Ok(Undefined)
    ELSE Throw(FsReadFile(n).err)

\* candidate.prediacte ("none": undefined or null)
GetPrediacte(candidate) ==
    IF "prediacte" \in DOMAIN candidate THEN candidate.prediacte ELSE "none"

\* the inner for loop of DSSReader.readSecrets / readSecretsSync up to the
\* matching candidate
RECURSIVE DSSScanCandidates(_, _, _)
DSSScanCandidates(list, raw, i) ==
    IF i > Len(list) THEN [events |-> <<>>, idx |-> 0]
    ELSE LET prediacte == GetPrediacte(list[i]) IN
         IF prediacte = "none" THEN [events |-> <<>>, idx |-> i]
         ELSE LET holds == CallPredicate(prediacte, raw)
                  event == PredicateEvent(i, raw, holds) IN
              IF holds THEN [events |-> <<event>>, idx |-> i]
              ELSE LET rest == DSSScanCandidates(list, raw, i + 1) IN
                   [events |-> <<event>> \o rest.events, idx |-> rest.idx]

\* the {name, data, secret} object the DSSReader reads return
DSSSecret(n, data, secret) == Obj([name |-> Text(n), data |-> data, secret |-> secret])

DSSInterpreters == {Function("DSS.asBuffer"), Function("DSS.asText")}
DSSSingleInterpreters == {Undefined} \cup DSSInterpreters
\* entries written as the README shows them ({interpreter, predicate}) and as
\* the DSSPredicatedInterpreter interface declares them ({interpreter, prediacte})
DSSEntries ==
    {Entry(f, p, "none") : f \in DSSInterpreters, p \in Predicates \cup {"none"}}
        \cup {Entry(f, "none", "nameIsJson") : f \in DSSInterpreters}
DSSLists == UNION {[1..k -> DSSEntries] : k \in 0..MaxInterpreters}
DSSBulkArgs == {Undefined} \cup {Array(l) : l \in DSSLists}

\* DSSReader.readSecret, up to the await of readFileIgnoreMissing
DSSReadSecretCall(n, interpreter) ==
    /\ pc = "idle"
    /\ pc' = "dss_await"
    /\ op' = "DSS.readSecret"
    /\ name' = n
    /\ arg' = interpreter
    /\ UNCHANGED <<caches, reads, env, fs, dir, now, secretsCache, interpreters, todo, result, outcome, log>>

\* DSSReader.readSecret, from the completion of the file read to the return
DSSReadSecretResume ==
    /\ pc = "dss_await"
    /\ pc' = "done"
    /\ LET file == readFileIgnoreMissing(name)
           fileEvent == ReadFileEvent(name, FsReadFile(name), file) IN
       IF ~file.ok
       THEN /\ outcome' = file
            /\ log' = log \o <<fileEvent>>
       ELSE LET f == IF arg = Undefined
                     THEN CallFunction(Function("DSS.asBufferFactory"), Undefined).val
                     ELSE arg
                secret == CallFunction(f, RawSecret(name, file.val)) IN
            /\ log' = log \o <<fileEvent, InterpreterEvent(0, f, RawSecret(name, file.val), secret)>>
            /\ outcome' = IF secret.ok THEN Ok(DSSSecret(name, file.val, secret.val)) ELSE secret
    /\ UNCHANGED <<caches, reads, env, fs, dir, now, secretsCache, op, name, arg, interpreters, todo, result>>

\* DSSReader.readSecretSync
DSSReadSecretSync(n, interpreter) ==
    /\ pc = "idle"
    /\ pc' = "done"
    /\ op' = "DSS.readSecretSync"
    /\ name' = n
    /\ arg' = interpreter
    /\ LET file == readFileIgnoreMissingSync(n)
           fileEvent == ReadFileEvent(n, FsReadFile(n), file) IN
       IF ~file.ok
       THEN /\ outcome' = file
            /\ log' = log \o <<fileEvent>>
       ELSE LET f == IF interpreter = Undefined THEN Function("DSS.asBufferFactory")
                     ELSE interpreter
                secret == CallFunction(f, RawSecret(n, file.val)) IN
            /\ log' = log \o <<fileEvent, InterpreterEvent(0, f, RawSecret(n, file.val), secret)>>
            /\ outcome' = IF secret.ok THEN Ok(DSSSecret(n, file.val, secret.val)) ELSE secret
    /\ UNCHANGED <<caches, reads, env, fs, dir, now, secretsCache, interpreters, todo, result>>

\* the completion of a DSSReader bulk read: readSecretsSync is declared async,
\* so what it hands back is a promise in either case
DSSBulkCompletion(o, completion) ==
    IF o = "DSS.readSecrets" THEN completion
    ELSE IF completion.ok THEN Ok(Promise(completion.val))
    ELSE Ok(Rejected(completion.err))

\* DSSReader.readSecrets / readSecretsSync, up to the directory listing
DSSBulkCall(o, interps) ==
    /\ pc = "idle"
    /\ pc' = "dss_list"
    /\ op' = o
    /\ arg' = interps
    /\ interpreters' = IF interps = Undefined
                       THEN <<Entry(CallFunction(Function("DSS.asBufferFactory"), Undefined).val,
                                    "none", "none")>>
                       ELSE interps.items
    /\ result' = <<>>
    /\ UNCHANGED <<caches, reads, env, fs, dir, now, secretsCache, name, todo, outcome, log>>

\* the directory listing of DSSReader.readSecrets / readSecretsSync
DSSBulkList ==
    /\ pc = "dss_list"
    /\ \E listing \in FsReaddir :
          /\ log' = log \o <<ReaddirEvent(listing, listing)>>
          /\ IF ~listing.ok
             THEN /\ pc' = "done"
                  /\ outcome' = DSSBulkCompletion(op, listing)
                  /\ UNCHANGED todo
             ELSE IF listing.val.items = <<>>
             THEN /\ pc' = "done"
                  /\ outcome' = DSSBulkCompletion(op, Ok(Array(result)))
                  /\ UNCHANGED todo
             ELSE /\ pc' = "dss_loop"
                  /\ todo' = listing.val.items
                  /\ UNCHANGED outcome
    /\ UNCHANGED <<caches, reads, env, fs, dir, now, secretsCache, op, name, arg, interpreters, result>>

\* one iteration of the for loop over the listing, and the return after the last
DSSBulkStep ==
    /\ pc = "dss_loop"
    /\ LET n == Head(todo)
           file == IF op = "DSS.readSecrets" THEN readFileIgnoreMissing(n)
                   ELSE readFileIgnoreMissingSync(n)
           fileEvent == ReadFileEvent(n, FsReadFile(n), file) IN
       IF ~file.ok
       THEN /\ pc' = "done"
            /\ outcome' = DSSBulkCompletion(op, file)
            /\ log' = log \o <<fileEvent>>
            /\ UNCHANGED <<todo, result>>
       ELSE LET raw == RawSecret(n, file.val)
                scan == DSSScanCandidates(interpreters, raw, 1)
                f == GetInterpreter(interpreters[scan.idx])
                secret == CallFunction(f, raw) IN
            IF scan.idx = 0
            THEN /\ log' = log \o <<fileEvent>> \o scan.events
                 /\ todo' = Tail(todo)
                 /\ UNCHANGED result
                 /\ pc' = IF Tail(todo) = <<>> THEN "done" ELSE "dss_loop"
                 /\ outcome' = IF Tail(todo) = <<>>
                               THEN DSSBulkCompletion(op, Ok(Array(result))) ELSE outcome
            ELSE /\ log' = log \o <<fileEvent>> \o scan.events
                             \o <<InterpreterEvent(scan.idx, f, raw, secret)>>
                 /\ IF ~secret.ok
                    THEN /\ pc' = "done"
                         /\ outcome' = DSSBulkCompletion(op, secret)
                         /\ UNCHANGED <<todo, result>>
                    ELSE /\ todo' = Tail(todo)
                         /\ result' = Append(result, DSSSecret(n, file.val, secret.val))
                         /\ pc' = IF Tail(todo) = <<>> THEN "done" ELSE "dss_loop"
                         /\ outcome' = IF Tail(todo) = <<>>
                                       THEN DSSBulkCompletion(op, Ok(Array(result')))
                                       ELSE outcome
    /\ UNCHANGED <<caches, reads, env, fs, dir, now, secretsCache, op, name, arg, interpreters>>

(***************************************************************************)
(* The 1.x module (index.js)                                                *)
(***************************************************************************)
\* file states of the directory the 1.x functions read: empty, plain text,
\* JSON texts of an object and of the number 0, and an unreadable file
LegacyFileStates == {"", "x", "{\"a\":1}", "0", "ENOENT", "EACCES"}

\* options objects a caller passes; parseJSON is the key the README documents
LegacyOptions ==
    {Undefined,
     Obj([parseJSON |-> Bool(FALSE)]),
     Obj([ignoreJSON |-> Bool(TRUE)]),
     Obj([debug |-> Bool(TRUE)])}

\* callbacks a caller passes: none, one that returns, one that throws when it
\* is handed a result
LegacyCallbacks == {"none", "returns", "throwsOnResult"}

\* opts.ignoreJSON and opts.debug as every 1.x function computes them
LegacyOpts(options) ==
    [ignoreJSON |-> IF ~Falsy(options) /\ Prop(options, "ignoreJSON") # Bool(FALSE)
                    THEN Prop(options, "ignoreJSON") ELSE Bool(FALSE),
     debug |-> IF ~Falsy(options) /\ Prop(options, "debug") # Bool(FALSE)
               THEN Prop(options, "debug") ELSE Bool(FALSE)]

\* the value stored for a file's text: the text when opts.ignoreJSON is
\* truthy, else JSON.parse(text), else the text when that throws
LegacyValue(opts, text) ==
    IF ~Falsy(opts.ignoreJSON) THEN Text(text)
    ELSE IF JSONParse(text).ok THEN JSONParse(text).val
    ELSE Text(text)

CallbackEvent(err, res) == [k |-> "callback", err |-> err, res |-> res]
\* an exception that leaves an fs callback, or a rejection nothing handles
UncaughtEvent(err) == [k |-> "uncaught", err |-> err]

LegacyArgs(options, callback) == [t |-> "arguments", options |-> options, callback |-> callback]

\* the then / catch chain attached to the promise when a callback was given:
\* the calls of the callback made once the promise has settled as completion
LegacyReaction(callback, completion) ==
    IF callback = "none" \/ completion = None THEN <<>>
    ELSE IF ~completion.ok THEN <<CallbackEvent(completion.err, Undefined)>>
    ELSE IF callback = "throwsOnResult"
    THEN <<CallbackEvent(Bool(FALSE), completion.val),
           CallbackEvent(Error("CallbackError"), Undefined)>>
    ELSE <<CallbackEvent(Bool(FALSE), completion.val)>>

\* checkCompletion: every listed file has a truthy entry in res
checkCompletion(files, res) ==
    \A i \in DOMAIN files : files[i] \in DOMAIN res /\ ~Falsy(res[files[i]])

\* readSecrets, up to the return: fs.readdir has been started
LegacyReadSecretsCall(options, callback) ==
    /\ pc = "idle"
    /\ pc' = "legacy_readdir"
    /\ op' = "legacy.readSecrets"
    /\ arg' = LegacyArgs(options, callback)
    /\ result' = EmptyMap
    /\ todo' = {}
    /\ UNCHANGED <<caches, reads, env, fs, dir, now, secretsCache, name, interpreters, outcome, log>>

\* the callback of fs.readdir in readSecrets
LegacyReaddirCallback ==
    /\ pc = "legacy_readdir"
    /\ \E listing \in FsReaddir :
          IF ~listing.ok
          THEN \* reject(err), then for(let v of files) on undefined
               /\ outcome' = listing
               /\ log' = log \o <<ReaddirEvent(listing, listing), UncaughtEvent(Error("TypeError"))>>
                             \o LegacyReaction(arg.callback, listing)
               /\ pc' = "done"
               /\ UNCHANGED todo
          ELSE /\ log' = log \o <<ReaddirEvent(listing, listing)>>
               /\ todo' = {listing.val.items[i] : i \in DOMAIN listing.val.items}
               /\ pc' = IF listing.val.items = <<>> THEN "done" ELSE "legacy_wait"
               /\ UNCHANGED outcome
    /\ UNCHANGED <<caches, reads, env, fs, dir, now, secretsCache, op, name, arg, interpreters, result>>

\* readSecret, up to the return: fs.readFile has been started
LegacyReadSecretCall(n, options, callback) ==
    /\ pc = "idle"
    /\ pc' = "legacy_wait"
    /\ op' = "legacy.readSecret"
    /\ name' = n
    /\ arg' = LegacyArgs(options, callback)
    /\ result' = EmptyMap
    /\ todo' = {n}
    /\ UNCHANGED <<caches, reads, env, fs, dir, now, secretsCache, interpreters, outcome, log>>

\* the callback of one fs.readFile, in readSecrets and in readSecret; the
\* callbacks of readSecrets arrive in any order
LegacyReadFileCallback ==
    /\ pc = "legacy_wait"
    /\ \E v \in todo :
          LET file == FsReadFile(v)
              fileEvent == ReadFileEvent(v, file, file)
              settle(c) == IF outcome = None THEN c ELSE outcome
              reaction(c) == IF outcome = None THEN LegacyReaction(arg.callback, c) ELSE <<>> IN
          /\ todo' = todo \ {v}
          /\ pc' = IF todo' = {} THEN "done" ELSE "legacy_wait"
          /\ IF ~file.ok
             THEN \* reject(err), then data.toString() on undefined
                  /\ outcome' = settle(file)
                  /\ log' = log \o <<fileEvent, UncaughtEvent(Error("TypeError"))>>
                                \o reaction(file)
                  /\ UNCHANGED result
             ELSE LET value == LegacyValue(LegacyOpts(arg.options), file.val.bytes) IN
                  IF op = "legacy.readSecret"
                  THEN /\ outcome' = settle(Ok(value))
                       /\ log' = log \o <<fileEvent>> \o reaction(Ok(value))
                       /\ UNCHANGED result
                  ELSE /\ result' = Put(result, v, value)
                       /\ IF checkCompletion(log[1].ret.val.items, result')
                          THEN /\ outcome' = settle(Ok(Obj(result')))
                               /\ log' = log \o <<fileEvent>> \o reaction(Ok(Obj(result')))
                          ELSE /\ log' = log \o <<fileEvent>>
                               /\ UNCHANGED outcome
    /\ UNCHANGED <<caches, reads, env, fs, dir, now, secretsCache, op, name, arg, interpreters>>

\* the for loop of readSecretsSync over the listing
RECURSIVE LegacySyncLoop(_, _, _, _)
LegacySyncLoop(files, opts, res, events) ==
    IF files = <<>> THEN [completion |-> Ok(Obj(res)), events |-> events]
    ELSE LET v == Head(files)
             file == FsReadFile(v)
             fileEvent == ReadFileEvent(v, file, file) IN
         IF ~file.ok THEN [completion |-> file, events |-> Append(events, fileEvent)]
         ELSE LegacySyncLoop(Tail(files), opts,
                             Put(res, v, LegacyValue(opts, file.val.bytes)),
                             Append(events, fileEvent))

\* readSecretsSync
LegacyReadSecretsSync(options) ==
    /\ pc = "idle"
    /\ pc' = "done"
    /\ op' = "legacy.readSecretsSync"
    /\ arg' = LegacyArgs(options, "none")
    /\ \E listing \in FsReaddir :
          IF ~listing.ok
          THEN /\ outcome' = listing
               /\ log' = log \o <<ReaddirEvent(listing, listing)>>
               /\ UNCHANGED result
          ELSE LET loop == LegacySyncLoop(listing.val.items, LegacyOpts(options), EmptyMap, <<>>) IN
               /\ outcome' = loop.completion
               /\ log' = log \o <<ReaddirEvent(listing, listing)>> \o loop.events
               /\ result' = IF loop.completion.ok THEN loop.completion.val.props ELSE result
    /\ UNCHANGED <<caches, reads, env, fs, dir, now, secretsCache, name, interpreters, todo>>

\* readSecretSync
LegacyReadSecretSync(n, options) ==
    /\ pc = "idle"
    /\ pc' = "done"
    /\ op' = "legacy.readSecretSync"
    /\ name' = n
    /\ arg' = LegacyArgs(options, "none")
    /\ LET file == FsReadFile(n) IN
       /\ log' = log \o <<ReadFileEvent(n, file, file)>>
       /\ outcome' = IF ~file.ok THEN file
                     ELSE Ok(LegacyValue(LegacyOpts(options), file.val.bytes))
    /\ UNCHANGED <<caches, reads, env, fs, dir, now, secretsCache, interpreters, todo, result>>

(***************************************************************************)
(* Environment                                                              *)
(***************************************************************************)
\* the files the operation in flight has yet to read; between two operations,
\* every file
Unread ==
    CASE pc \in {"idle", "bulk_list", "dss_list"} -> DOMAIN fs
      [] pc \in {"read_await", "dss_await"} -> {name}
      [] pc \in {"bulk_loop", "dss_loop"} -> {todo[i] : i \in DOMAIN todo}
      [] pc = "legacy_readdir" -> DOMAIN fs
      [] pc = "legacy_wait" -> todo
      [] OTHER -> {}

\* another process creates, rewrites, removes or locks a file.  A change to a
\* file the operation in flight will not read any more cannot reach it: it is
\* taken once the operation has returned.
FileChange(states) ==
    /\ \E n \in Unread, st \in states :
          /\ fs[n] # st
          /\ fs' = [fs EXCEPT ![n] = st]
    /\ UNCHANGED <<caches, reads, env, dir, now, secretsCache, pc, op, name, arg, interpreters, todo, result, outcome, log>>

\* another process removes the secrets directory, or changes its permissions,
\* before the operation in flight lists it
DirChange ==
    /\ pc \in {"idle", "bulk_list", "dss_list", "legacy_readdir"}
    /\ \E st \in DirStates : dir # st /\ dir' = st
    /\ UNCHANGED <<caches, reads, env, fs, now, secretsCache, pc, op, name, arg, interpreters, todo, result, outcome, log>>

\* time passes between two operations
Tick ==
    /\ pc = "idle"
    /\ now < MaxNow
    /\ now' = now + 1
    /\ UNCHANGED <<caches, reads, env, fs, dir, secretsCache, pc, op, name, arg, interpreters, todo, result, outcome, log>>

\* the process sets or deletes an environment variable between two operations
EnvChange ==
    /\ pc = "idle"
    /\ \E v \in EnvVars, x \in {Undefined} \cup {Text(s) : s \in EnvValues} :
          /\ env[v] # x
          /\ env' = [env EXCEPT ![v] = x]
    /\ UNCHANGED <<caches, reads, fs, dir, now, secretsCache, pc, op, name, arg, interpreters,
                   todo, result, outcome, log>>

\* the caller has consumed the completion; the reader is ready for the next call
Return ==
    /\ pc = "done"
    /\ pc' = "idle"
    /\ op' = "none"
    /\ name' = ""
    /\ arg' = Undefined
    /\ interpreters' = <<>>
    /\ todo' = <<>>
    /\ result' = EmptyMap
    /\ outcome' = None
    /\ log' = <<>>
    /\ UNCHANGED <<caches, reads, env, fs, dir, now, secretsCache>>

InitCall ==
    /\ now = 1
    /\ env = [v \in EnvVars |-> Undefined]
    /\ caches = [r \in Readers |-> EmptyMap]
    /\ reads = [c \in Calls |-> IdleRead]
    /\ secretsCache = EmptyMap
    /\ pc = "idle"
    /\ op = "none"
    /\ name = ""
    /\ arg = Undefined
    /\ interpreters = <<>>
    /\ todo = <<>>
    /\ result = EmptyMap
    /\ outcome = None
    /\ log = <<>>

(***************************************************************************)
(* Specification of the SecretReader single-name reads                      *)
(***************************************************************************)
Init ==
    /\ fs \in [Names -> FileStates]
    /\ dir = "ok"
    /\ InitCall

Next ==
    \/ \E n \in Names, i \in SingleInterpreters : ReadCall(n, i)
    \/ \E test \in ShapeTests : ReadResume(test)
    \/ \E n \in Names, i \in SingleInterpreters : ReadSecretSync(n, i)
    \/ FileChange(FileStates)
    \/ Tick
    \/ EnvChange
    \/ Return

Spec == Init /\ [][Next]_vars

(***************************************************************************)
(* Specification of all four SecretReader reads over one directory, with    *)
(* interpreters of the default library                                      *)
(***************************************************************************)
PlainInterpreters == {Undefined} \cup BulkInterpreters

InitAll ==
    /\ fs \in [DirNames -> DirFileStates]
    /\ dir \in DirStates
    /\ InitCall

NextAll ==
    \/ \E n \in DirNames, i \in PlainInterpreters : ReadCall(n, i)
    \/ \E test \in ShapeTests : ReadResume(test)
    \/ \E n \in DirNames, i \in PlainInterpreters : ReadSecretSync(n, i)
    \/ \E o \in {"readSecrets", "readSecretsSync"}, a \in BulkArgs : BulkCall(o, a)
    \/ BulkList
    \/ BulkStep
    \/ FileChange(DirFileStates)
    \/ DirChange
    \/ Return

SpecAll == InitAll /\ [][NextAll]_vars

(***************************************************************************)
(* Specification of the DSSReader reads                                     *)
(***************************************************************************)
NextDSS ==
    \/ \E n \in DirNames, i \in DSSSingleInterpreters : DSSReadSecretCall(n, i)
    \/ DSSReadSecretResume
    \/ \E n \in DirNames, i \in DSSSingleInterpreters : DSSReadSecretSync(n, i)
    \/ \E o \in {"DSS.readSecrets", "DSS.readSecretsSync"}, a \in DSSBulkArgs : DSSBulkCall(o, a)
    \/ DSSBulkList
    \/ DSSBulkStep
    \/ FileChange(DirFileStates)
    \/ DirChange
    \/ Return

SpecDSS == InitAll /\ [][NextDSS]_vars

(***************************************************************************)
(* Specification of the default interpreters: single-name reads of both     *)
(* readers with asJSON and asTextOrJSON over files of every kind of content *)
(***************************************************************************)
LibInterpreters == {Function("asJSON"), Function("asTextOrJSON")}
DSSLibInterpreters == {Function("DSS.asJSON"), Function("DSS.asTextOrJSON")}

InitLib ==
    /\ fs \in [Names -> LibFileStates]
    /\ dir = "ok"
    /\ InitCall

NextLib ==
    \/ \E n \in Names, i \in LibInterpreters : ReadCall(n, i)
    \/ \E test \in ShapeTests : ReadResume(test)
    \/ \E n \in Names, i \in LibInterpreters : ReadSecretSync(n, i)
    \/ \E n \in Names, i \in DSSLibInterpreters : DSSReadSecretCall(n, i)
    \/ DSSReadSecretResume
    \/ \E n \in Names, i \in DSSLibInterpreters : DSSReadSecretSync(n, i)
    \/ FileChange(LibFileStates)
    \/ Return

SpecLib == InitLib /\ [][NextLib]_vars

(***************************************************************************)
(* Specification of the 1.x module, with the 2.x read it is compared to     *)
(***************************************************************************)
InitLegacy ==
    /\ fs \in [DirNames -> LegacyFileStates]
    /\ dir \in DirStates
    /\ InitCall

NextLegacy ==
    \/ \E o \in LegacyOptions, c \in LegacyCallbacks : LegacyReadSecretsCall(o, c)
    \/ LegacyReaddirCallback
    \/ \E n \in DirNames, o \in LegacyOptions, c \in LegacyCallbacks : LegacyReadSecretCall(n, o, c)
    \/ LegacyReadFileCallback
    \/ \E o \in LegacyOptions : LegacyReadSecretsSync(o)
    \/ \E n \in DirNames, o \in LegacyOptions : LegacyReadSecretSync(n, o)
    \/ \E n \in DirNames : ReadSecretSync(n, Function("asTextOrJSON"))
    \/ FileChange(LegacyFileStates)
    \/ DirChange
    \/ Return

SpecLegacy == InitLegacy /\ [][NextLegacy]_vars

(***************************************************************************)
(* Specification of concurrent read() calls on two SecretReader instances   *)
(***************************************************************************)
InitReaders ==
    /\ fs \in [{SharedName} -> DirFileStates]
    /\ dir = "ok"
    /\ InitCall

NextReaders ==
    \/ \E c \in Calls, r \in Readers, i \in ConcurrentInterpreters :
          ConcurrentReadCall(c, r, SharedName, i)
    \/ \E c \in Calls, test \in ShapeTests : ConcurrentReadResume(c, test)
    \/ \E c \in Calls : ConcurrentReturn(c)
    \/ FileChange(DirFileStates)

SpecReaders == InitReaders /\ [][NextReaders]_vars

(***************************************************************************)
(* Properties of the SecretReader accessor and of candidate selection       *)
(***************************************************************************)
BulkOps == {"readSecrets", "readSecretsSync"}
SingleOps == {"read", "readSecretSync"}

\* last event of the operation that belongs to the file read at log[i]
SegmentEnd(i) ==
    LET later == {j \in (i + 1)..Len(log) : log[j].k = "readFile"} IN
    IF later = {} THEN Len(log)
    ELSE (CHOOSE j \in later : \A m \in later : j <= m) - 1

\* the raw secret the accessor produced at log[i]
RawAt(i) == RawSecret(log[i].name, log[i].ret.val)

\* indices of the candidates whose predicate is absent or true for raw
Matching(list, raw) ==
    {j \in 1..Len(list) :
        \/ GetPredicate(list[j]) = "none"
        \/ CallPredicate(GetPredicate(list[j]), raw)}

\* the value a bulk result holds for n
ResultSecret(n) == IF op = "readSecrets" THEN result[n].props.secret ELSE result[n]

\* C1: a read of a name that has no file does not fail in the accessor: it
\* yields undefined, and every predicate and interpreter run for that name
\* receives {name, data: undefined}; the interpreter of a single-name read and
\* the matching interpreter of a bulk read are run on it.
C1_AbsentDataReachesInterpreter ==
    \A i \in DOMAIN log :
        (log[i].k = "readFile" /\ log[i].os = Throw(Error("ENOENT"))) =>
            /\ log[i].ret = Ok(Undefined)
            /\ outcome # Throw(Error("ENOENT"))
            /\ \A j \in (i + 1)..SegmentEnd(i) :
                  log[j].k \in {"predicate", "interpreter"}
                      => log[j].raw = RawSecret(log[i].name, Undefined)
            /\ op \in SingleOps =>
                  /\ Len(log) > i
                  /\ log[i + 1].k = "interpreter"
                  /\ log[i + 1].raw = RawSecret(name, Undefined)
            /\ (op \in BulkOps /\ Matching(interpreters, RawSecret(log[i].name, Undefined)) # {}) =>
                  \E j \in (i + 1)..SegmentEnd(i) : log[j].k = "interpreter"

\* a bulk read listed a name whose file was gone when it was read, and returned
\* the name with absent data
C1_Witness ==
    /\ pc = "done"
    /\ op = "readSecrets"
    /\ outcome.ok
    /\ \E i \in DOMAIN log :
          /\ log[i].k = "readFile"
          /\ log[i].os = Throw(Error("ENOENT"))
          /\ log[i].name \in DOMAIN outcome.val.props
          /\ outcome.val.props[log[i].name].props.data = Undefined

\* C2: a failed directory listing, and a failed file read with a code other
\* than ENOENT, ends the operation at once with that same error as its
\* completion; no file is read twice and the directory is listed once.
C2_OtherFailuresPropagate ==
    /\ \A i \in DOMAIN log :
          (/\ log[i].k \in {"readFile", "readdir"}
           /\ ~log[i].os.ok
           /\ ~(log[i].k = "readFile" /\ log[i].os.err.code = "ENOENT")) =>
              /\ i = Len(log)
              /\ pc = "done"
              /\ outcome = log[i].os
    /\ \A i, j \in DOMAIN log :
          (i < j /\ log[i].k = log[j].k) =>
              /\ log[i].k # "readdir"
              /\ log[i].k = "readFile" => log[i].name # log[j].name

\* a bulk read that had already read one secret fails with the EACCES of the next
C2_Witness ==
    /\ pc = "done"
    /\ op = "readSecretsSync"
    /\ outcome = Throw(Error("EACCES"))
    /\ result # EmptyMap
    /\ log[Len(log)].k = "readFile"

\* C4: in a bulk read the interpreter run for a secret is the one of the first
\* candidate, in list order, whose predicate is absent or true, it is the only
\* one run, and the result holds that interpreter's output for the secret.
C4_FirstMatchWins ==
    op \in BulkOps =>
        /\ \A i \in DOMAIN log :
              (log[i].k = "readFile" /\ log[i].ret.ok /\ Matching(interpreters, RawAt(i)) # {}) =>
                  LET M == Matching(interpreters, RawAt(i))
                      first == CHOOSE j \in M : \A m \in M : j <= m
                      runs == {j \in (i + 1)..SegmentEnd(i) : log[j].k = "interpreter"} IN
                  /\ Cardinality(runs) = 1
                  /\ \A j \in runs :
                        /\ log[j].idx = first
                        /\ log[j].f = GetInterpreter(interpreters[first])
                        /\ log[j].raw = RawAt(i)
                  /\ log[i].name \in DOMAIN result =>
                        Ok(ResultSecret(log[i].name))
                            = CallFunction(GetInterpreter(interpreters[first]), RawAt(i))
        /\ \A n \in DOMAIN result :
              \E i \in DOMAIN log : log[i].k = "interpreter" /\ log[i].raw.name = n

\* readSecrets([{interpreter: asText, predicate: nameIsJson}, {interpreter: asBuffer}])
\* returned text for a.json and the raw bytes for b
C4_Witness ==
    /\ pc = "done"
    /\ op = "readSecrets"
    /\ arg = Array(<<Entry(Function("asText"), "nameIsJson", "none"),
                     Entry(Function("asBuffer"), "none", "none")>>)
    /\ outcome.ok
    /\ DOMAIN outcome.val.props = {"a.json", "b"}
    /\ outcome.val.props["a.json"].props.secret = Text("x")
    /\ outcome.val.props["b"].props.secret = Buffer("x")

\* C5: in a bulk read a secret for which every candidate has a predicate and
\* none is true gets no key in the result, runs no interpreter, and does not
\* end the operation with an error.
C5_UnmatchedSecretOmitted ==
    op \in BulkOps =>
        \A i \in DOMAIN log :
            (log[i].k = "readFile" /\ log[i].ret.ok /\ Matching(interpreters, RawAt(i)) = {}) =>
                /\ log[i].name \notin DOMAIN result
                /\ (pc = "done" /\ outcome.ok) => log[i].name \notin DOMAIN outcome.val.props
                /\ \A j \in (i + 1)..SegmentEnd(i) : log[j].k = "predicate" /\ ~log[j].ret
                /\ SegmentEnd(i) = Len(log) => outcome.ok

\* readSecretsSync([{interpreter, predicate: nameIsJson}]) read b and a.json and
\* returned a.json only
C5_Witness ==
    /\ pc = "done"
    /\ op = "readSecretsSync"
    /\ outcome.ok
    /\ IsArray(arg)
    /\ Len(interpreters) = 1
    /\ \E i \in DOMAIN log : log[i].k = "readFile" /\ log[i].name = "b" /\ log[i].ret.ok
    /\ DOMAIN outcome.val.props = {"a.json"}

(***************************************************************************)
(* Properties of the SecretReader single-name reads                         *)
(***************************************************************************)
\* the blocking conversion a non-blocking one corresponds to
SyncForm(f) ==
    CASE f = Undefined -> Function("asBuffer")
      [] f = Function("asBufferAsync") -> Function("asBuffer")
      [] f = Function("asyncText") -> Function("asText")
      [] OTHER -> f

\* interpreters that return an annotated Secret<T>
Annotating == {Function("annotate0"), Function("annotate1"), Function("asyncAnnotate0")}

\* C7: a single-name read with no interpreter, like one with asBuffer(),
\* completes with the bytes of the file when the file exists and with undefined
\* when it does not, in the blocking and in the non-blocking form.
C7_NoInterpreterReturnsBytes ==
    (/\ pc = "done"
     /\ \/ op = "readSecretSync" /\ arg \in {Undefined, Function("asBuffer")}
        \/ /\ op = "read"
           /\ arg \in {Undefined, Function("asBufferAsync")}
           /\ Len(log) = 3
           /\ log[3].test = "isSecretObject"
     /\ (log[1].os.ok \/ log[1].os.err.code = "ENOENT")) =>
        outcome = Ok(IF log[1].os.ok THEN log[1].os.val ELSE Undefined)

\* C9: a completed non-blocking read(name, interpreter) yields the value the
\* interpreter's promise resolves to, not wrapped in an object: the value
\* readSecretSync returns for the same name, content and conversion.
C9_ReadReturnsResolvedValue ==
    (/\ pc = "done"
     /\ op = "read"
     /\ arg \in {Undefined, Function("asBufferAsync"), Function("asyncText")}
     /\ Len(log) = 3
     /\ log[3].test = "isSecretObject") =>
        outcome = CallFunction(SyncForm(arg), log[2].raw)

\* C10: when the interpreter of read() returns a value that is not an annotated
\* Secret<T>, the read delivers exactly that value and leaves the cache as it was.
C10_PlainResultIsDirectValue ==
    [][(/\ pc = "read_await"
        /\ pc' = "done"
        /\ arg \notin Annotating
        /\ Len(log') = 3
        /\ log'[3].test = "isSecretObject") =>
           /\ outcome'.ok
           /\ \/ outcome'.val = log'[2].ret.val
              \/ outcome'.val = Obj([name |-> Text(name), data |-> log'[1].ret.val,
                                     secret |-> log'[2].ret.val])
           /\ secretsCache' = secretsCache]_vars

(***************************************************************************)
(* Properties of the SecretReader cache and of environment overrides        *)
(***************************************************************************)
\* a step of read() from the completion of the file read to its return
ReadCompletes == pc = "read_await" /\ pc' = "done"

\* the value a promise resolves to; any other value as it is
Resolved(v) == IF v.t = "promise" /\ "value" \in DOMAIN v THEN v.value ELSE v

\* the expiry time a cache entry records
CacheUntil(entry) ==
    IF "cacheUntil" \in DOMAIN entry THEN entry.cacheUntil ELSE entry.expiresAt

\* a completion that delivers v, as the value itself or as the secret of a
\* {name, data, secret} object
Delivers(completion, v) ==
    /\ completion.ok
    /\ \/ completion.val = v
       \/ completion.val.t = "object" /\ Prop(completion.val, "secret") = v

\* C11: once a read has cached a result with cacheFor 0, every later read of
\* that name on the same reader delivers the cached value and runs neither the
\* accessor nor the interpreter.
C11_CachedForeverIsServed ==
    [][(/\ ReadCompletes
        /\ name \in DOMAIN secretsCache
        /\ CacheUntil(secretsCache[name]) = 0) =>
           /\ \A i \in DOMAIN log' : log'[i].k \notin {"readFile", "interpreter"}
           /\ Delivers(outcome', secretsCache[name].secret)]_vars

\* C12: when the interpreter of read() produces an annotated result, the cache
\* gets an entry for the name exactly when cacheFor is present and not
\* negative, with expiry 0 for cacheFor 0 and now + cacheFor otherwise; with
\* cacheFor negative or absent the cache is left as it was.
C12_CacheWrittenIffRequested ==
    [][(/\ ReadCompletes
        /\ Len(log') = 3
        /\ log'[3].test = "isSecretObject"
        /\ Resolved(log'[2].ret.val).t = "object"
        /\ "secret" \in DOMAIN Resolved(log'[2].ret.val).props) =>
           LET cacheFor == Prop(Resolved(log'[2].ret.val), "cacheFor") IN
           IF cacheFor # Undefined /\ cacheFor.n >= 0
           THEN /\ DOMAIN secretsCache' = DOMAIN secretsCache \cup {name}
                /\ \A n \in DOMAIN secretsCache \ {name} : secretsCache'[n] = secretsCache[n]
                /\ CacheUntil(secretsCache'[name])
                       = IF cacheFor.n = 0 THEN 0 ELSE now + cacheFor.n
           ELSE secretsCache' = secretsCache]_vars

\* C13: a read of a name whose cache entry has not expired (expiry 0, or an
\* expiry not yet passed) is served from the entry without running the
\* accessor or the interpreter; the first read after a positive expiry has
\* passed runs both again.
C13_EntryServedUntilExpiry ==
    [][(ReadCompletes /\ name \in DOMAIN secretsCache) =>
           LET until == CacheUntil(secretsCache[name]) IN
           IF until = 0 \/ now <= until
           THEN /\ \A i \in DOMAIN log' : log'[i].k \notin {"readFile", "interpreter"}
                /\ secretsCache' = secretsCache
           ELSE /\ Len(log') >= 1
                /\ log'[1].k = "readFile"
                /\ log'[1].ret.ok => (Len(log') >= 2 /\ log'[2].k = "interpreter")]_vars

\* C14: an entry cached from a result that names an override environment
\* variable records the value the variable had (lastSeenEnv); a read that finds
\* the variable's value different from the recorded one runs the accessor and
\* the interpreter and overwrites the entry.
C14_EnvChangeInvalidatesEntry ==
    [][ReadCompletes =>
           /\ (/\ Len(log') = 3
               /\ log'[3].ret = Ok(TRUE)
               /\ Prop(log'[2].ret.val, "envOverrideRaw") # Undefined
               /\ Prop(log'[2].ret.val, "cacheFor") = Num(0)) =>
                  /\ name \in DOMAIN secretsCache'
                  /\ "lastSeenEnv" \in DOMAIN secretsCache'[name]
                  /\ secretsCache'[name].lastSeenEnv
                         = env[Prop(log'[2].ret.val, "envOverrideRaw").text]
           /\ (/\ name \in DOMAIN secretsCache
               /\ "lastSeenEnv" \in DOMAIN secretsCache[name]
               /\ \E v \in EnvVars : secretsCache[name].lastSeenEnv # env[v]) =>
                  /\ Len(log') >= 1
                  /\ log'[1].k = "readFile"]_vars

\* C15: when the annotated result of read() names an environment variable in
\* envOverrideRaw and the variable is set, the read delivers and caches the
\* variable's value, whatever secret the interpreter computed; when the
\* variable is not set, the read delivers the interpreter's secret and does
\* not fail.
C15_RawOverrideReplacesSecret ==
    [][(/\ ReadCompletes
        /\ Len(log') = 3
        /\ log'[3].ret = Ok(TRUE)
        /\ Prop(log'[2].ret.val, "envOverrideRaw") # Undefined) =>
           LET current == env[Prop(log'[2].ret.val, "envOverrideRaw").text]
               effective == IF current # Undefined THEN current
                            ELSE Prop(log'[2].ret.val, "secret") IN
           /\ Delivers(outcome', effective)
           /\ name \in DOMAIN secretsCache' => secretsCache'[name].secret = effective]_vars

(***************************************************************************)
(* Properties of the SecretReader bulk reads and of failing interpreters    *)
(***************************************************************************)
\* the first candidate of the normalised list that matches raw
FirstMatch(raw) ==
    CHOOSE j \in Matching(interpreters, raw) : \A m \in Matching(interpreters, raw) : j <= m

\* C16: for the same directory content and the same interpreter list,
\* readSecretsSync and readSecrets complete with the same mapping: its keys are
\* the names a candidate matched, and the value of each key is the output of
\* the interpreter selected for that name, whichever of the two ran.
C16_BulkSyncAndAsyncAgree ==
    (op \in BulkOps /\ pc = "done" /\ outcome.ok /\ IsArray(arg)) =>
        /\ DOMAIN outcome.val.props
               = {log[i].name : i \in {j \in DOMAIN log :
                                          /\ log[j].k = "readFile"
                                          /\ Matching(interpreters, RawAt(j)) # {}}}
        /\ \A i \in DOMAIN log :
              (log[i].k = "readFile" /\ Matching(interpreters, RawAt(i)) # {}) =>
                  Ok(outcome.val.props[log[i].name])
                      = CallFunction(GetInterpreter(interpreters[FirstMatch(RawAt(i))]), RawAt(i))

\* C17: a bulk read works on a list made from its argument: the list itself,
\* the one-element list of a single {interpreter, predicate?} entry, or one
\* unconditional raw-bytes entry when the argument is omitted; in readSecrets
\* and in readSecretsSync alike.
C17_ArgumentNormalizedToList ==
    (op \in BulkOps /\ arg \notin BulkInterpreters) =>
        LET expected == IF arg = Undefined THEN <<Entry(Function("asBuffer"), "none", "none")>>
                        ELSE IF IsArray(arg) THEN arg.items
                        ELSE <<arg>> IN
        /\ Len(interpreters) = Len(expected)
        /\ \A k \in DOMAIN expected :
              /\ GetPredicate(interpreters[k]) = GetPredicate(expected[k])
              /\ SyncForm(GetInterpreter(interpreters[k])) = GetInterpreter(expected[k])

\* the error an interpreter call failed with: thrown, or the rejection of the
\* promise it returned
Failure(ret) ==
    IF ~ret.ok THEN Throw(ret.err)
    ELSE IF ret.val.t = "promise" /\ "rejected" \in DOMAIN ret.val THEN Throw(ret.val.rejected)
    ELSE Ok(Undefined)

\* C18: when the interpreter of a single-name read throws, or the promise it
\* returned to read() rejects, the read completes with that same error, not
\* with a result, and the cache is left as it was.
C18_InterpreterFailurePropagates ==
    [][(/\ pc' = "done"
        /\ \/ ReadCompletes /\ (Len(log') = 3 => log'[3].test = "isSecretObject")
           \/ pc = "idle" /\ op' = "readSecretSync" /\ Len(log') >= 2 /\ ~log'[2].ret.ok
        /\ Len(log') >= 2
        /\ ~Failure(log'[2].ret).ok) =>
           /\ outcome' = Failure(log'[2].ret)
           /\ secretsCache' = secretsCache]_vars

\* C25: in one bulk read at most one interpreter is run per secret, once;
\* predicates are called in list order, each at most once, up to the first
\* candidate that matches, and nothing of a later candidate is evaluated, so
\* candidates after an unconditional one are never reached.
C25_ScanStopsAtFirstMatch ==
    op \in BulkOps =>
        \A i \in DOMAIN log :
            (log[i].k = "readFile" /\ log[i].ret.ok) =>
                LET segment == (i + 1)..SegmentEnd(i)
                    runs == {j \in segment : log[j].k = "interpreter"}
                    tests == {j \in segment : log[j].k = "predicate"} IN
                /\ Cardinality(runs) <= 1
                /\ \A j, k \in tests : j < k => log[j].idx < log[k].idx
                /\ \A j \in tests : \A k \in runs : j < k /\ log[j].idx <= log[k].idx
                /\ \A j \in tests :
                      log[j].ret => \E k \in runs : k = j + 1 /\ log[k].idx = log[j].idx
                /\ Matching(interpreters, RawAt(i)) # {} =>
                      \A j \in segment : log[j].idx <= FirstMatch(RawAt(i))

\* readSecretsSync([{interpreter: asBuffer}, {interpreter: asText, predicate}])
\* returned both secrets and called no predicate
C25_Witness ==
    /\ pc = "done"
    /\ op = "readSecretsSync"
    /\ IsArray(arg)
    /\ Len(interpreters) = 2
    /\ GetPredicate(interpreters[1]) = "none"
    /\ GetPredicate(interpreters[2]) # "none"
    /\ outcome.ok
    /\ Cardinality(DOMAIN outcome.val.props) = 2
    /\ \A i \in DOMAIN log : log[i].k # "predicate"
    /\ Cardinality({i \in DOMAIN log : log[i].k = "interpreter"}) = 2

(***************************************************************************)
(* Properties of concurrent reads and of separate instances                 *)
(***************************************************************************)
\* the call c completes in this step
Completes(c) == reads[c].pc = "read_await" /\ reads'[c].pc = "done"

\* the cache entry the call c, completing in this step, has to write: a
\* complete entry made of what the call read and what its interpreter returned
EntryOf(c) ==
    [name |-> reads[c].name,
     data |-> reads'[c].log[1].ret.val,
     secret |-> Prop(reads'[c].log[2].ret.val, "secret"),
     expiresAt |-> IF Prop(reads'[c].log[2].ret.val, "cacheFor") = Num(0) THEN 0
                   ELSE now + Prop(reads'[c].log[2].ret.val, "cacheFor").n]

\* the call c, completing in this step, found an annotated result to cache
Caches(c) ==
    /\ Len(reads'[c].log) = 3
    /\ reads'[c].log[3].ret = Ok(TRUE)
    /\ Prop(reads'[c].log[2].ret.val, "cacheFor") # Undefined

C27_CacheIsPerInstance ==
    [][\A c \in Calls :
          Completes(c) =>
              /\ \A r \in Readers \ {reads[c].reader} : caches'[r] = caches[r]
              /\ Len(reads'[c].log) >= 1
              /\ reads'[c].log[1] = ReadFileEvent(reads[c].name, FsReadFile(reads[c].name),
                                                  readSecretFile(reads[c].name))
              /\ reads'[c].outcome.ok =>
                    reads'[c].outcome.val.props.data = readSecretFile(reads[c].name).val]_vars

\* the instance A has cached the secret; a later read on B delivered other
\* data (the file had changed) and the cache of B is still empty
C27_Witness ==
    /\ \E c \in Calls :
          /\ reads[c].pc = "done"
          /\ reads[c].reader = "B"
          /\ reads[c].outcome.ok
          /\ SharedName \in DOMAIN caches["A"]
          /\ reads[c].outcome.val.props.data # caches["A"][SharedName].data
    /\ caches["B"] = EmptyMap
    /\ \A c \in Calls : reads[c].reader # "A"

(***************************************************************************)
(* Properties of the default interpreters                                   *)
(***************************************************************************)
\* C19: asJSON never throws: it returns the parsed structure when the secret's
\* text is valid JSON, and undefined when the secret has no data or its text is
\* not valid JSON.
C19_AsJSONNeverThrows ==
    \A i \in DOMAIN log :
        (log[i].k = "interpreter" /\ log[i].f \in {Function("asJSON"), Function("DSS.asJSON")}) =>
            /\ log[i].ret.ok
            /\ log[i].ret = IF log[i].raw.data = Undefined THEN Ok(Undefined)
                            ELSE IF JSONParse(log[i].raw.data.bytes).ok
                            THEN JSONParse(log[i].raw.data.bytes)
                            ELSE Ok(Undefined)

\* readSecretSync(name, asJSON()) of a file holding text that is not JSON
\* returned undefined
C19_Witness ==
    /\ pc = "done"
    /\ op = "readSecretSync"
    /\ arg = Function("asJSON")
    /\ log[2].raw.data = Buffer("x")
    /\ outcome = Ok(Undefined)

\* C20: asTextOrJSON returns undefined only when the secret has no data: for
\* data that is present, the empty byte sequence included, it returns the
\* parsed structure when the text is valid JSON and the text itself otherwise.
C20_AsTextOrJSONAbsentOnlyWithoutData ==
    \A i \in DOMAIN log :
        (/\ log[i].k = "interpreter"
         /\ log[i].f \in {Function("asTextOrJSON"), Function("DSS.asTextOrJSON")}) =>
            log[i].ret = IF log[i].raw.data = Undefined THEN Ok(Undefined)
                         ELSE IF JSONParse(log[i].raw.data.bytes).ok
                         THEN JSONParse(log[i].raw.data.bytes)
                         ELSE Ok(Text(log[i].raw.data.bytes))

(***************************************************************************)
(* Properties of the DSSReader reads                                        *)
(***************************************************************************)
DSSSingleOps == {"DSS.readSecret", "DSS.readSecretSync"}
DSSBulkOps == {"DSS.readSecrets", "DSS.readSecretsSync"}

\* names of the secrets a DSSReader bulk read has collected
DSSResultNames == {result[k].props.name.text : k \in DOMAIN result}

\* C3: readFileIgnoreMissing and readFileIgnoreMissingSync yield undefined
\* exactly when the read fails with ENOENT, and rethrow every other read error.
C3_MissingFileIsUndefined ==
    op \in DSSSingleOps \cup DSSBulkOps =>
        \A i \in DOMAIN log :
            (log[i].k = "readFile" /\ ~log[i].os.ok) =>
                log[i].ret = IF log[i].os.err.code = "ENOENT" THEN Ok(Undefined) ELSE log[i].os

\* C6: in a DSSReader bulk read given entries {interpreter, predicate}, the
\* interpreter run for a secret is the one of the first entry whose predicate
\* is absent or true for it, and a secret no entry matches runs no interpreter
\* and is not returned.
C6_PredicateSelectsInterpreter ==
    (/\ op \in DSSBulkOps
     /\ IsArray(arg)
     /\ \A k \in DOMAIN interpreters : interpreters[k].prediacte = "none") =>
        \A i \in DOMAIN log :
            (log[i].k = "readFile" /\ log[i].ret.ok) =>
                LET M == Matching(interpreters, RawAt(i))
                    runs == {j \in (i + 1)..SegmentEnd(i) : log[j].k = "interpreter"} IN
                IF M = {}
                THEN runs = {} /\ log[i].name \notin DSSResultNames
                ELSE \A j \in runs : \A m \in M : log[j].idx <= m

\* C8: with no interpreter every DSSReader read returns an existing secret
\* with secret equal to the file's Buffer, the same bytes as data, and a secret
\* that does not exist with secret undefined.
C8_NoInterpreterReturnsBuffer ==
    (op \in DSSSingleOps \cup DSSBulkOps /\ arg = Undefined /\ pc = "done") =>
        /\ (op \in DSSSingleOps /\ (log[1].os.ok \/ log[1].os.err.code = "ENOENT")) =>
              LET bytes == IF log[1].os.ok THEN log[1].os.val ELSE Undefined IN
              outcome = Ok(DSSSecret(name, bytes, bytes))
        /\ op \in DSSBulkOps =>
              \A k \in DOMAIN result :
                  /\ result[k].props.data.t \in {"buffer", "undefined"}
                  /\ result[k].props.secret = result[k].props.data

(***************************************************************************)
(* Properties of the 1.x module                                             *)
(***************************************************************************)
LegacyAsyncOps == {"legacy.readSecrets", "legacy.readSecret"}
LegacySyncOps == {"legacy.readSecretsSync", "legacy.readSecretSync"}
LegacyBulkOps == {"legacy.readSecrets", "legacy.readSecretsSync"}

\* the directory listings and file reads of the operation that failed
FailedReads == {i \in DOMAIN log : log[i].k \in {"readdir", "readFile"} /\ ~log[i].os.ok}

\* the calls of the callback the operation has made
CallbackCalls == {i \in DOMAIN log : log[i].k = "callback"}

\* the value a completed 1.x operation delivered for the file n
LegacyDelivered(n) ==
    IF op \in LegacyBulkOps THEN outcome.val.props[n] ELSE outcome.val

\* C21: the 1.x readSecrets, once the listing and every file read it started
\* have called back without error, has fulfilled its promise with an object
\* holding one key per listed file; an empty directory and falsy values
\* included.
C21_LegacyReadSecretsCompletes ==
    (op = "legacy.readSecrets" /\ pc = "done" /\ FailedReads = {}) =>
        /\ outcome # None
        /\ outcome.ok
        /\ DOMAIN outcome.val.props
               = {log[1].ret.val.items[i] : i \in DOMAIN log[1].ret.val.items}

\* C22: with debug off, the 1.x readSecretsSync and readSecretSync return
\* false when the directory or a file cannot be read; they do not throw.
C22_LegacySyncReturnsFalseOnFailure ==
    (/\ op \in LegacySyncOps
     /\ pc = "done"
     /\ Falsy(LegacyOpts(arg.options).debug)
     /\ FailedReads # {}) =>
        outcome = Ok(Bool(FALSE))

\* C23: a 1.x read given parseJSON false delivers every secret as its text,
\* valid JSON included; with parseJSON true or not given, valid JSON is
\* delivered parsed.
C23_ParseJSONFalseGivesText ==
    (/\ op \in LegacyAsyncOps \cup LegacySyncOps
     /\ pc = "done"
     /\ outcome # None
     /\ outcome.ok
     /\ Prop(arg.options, "ignoreJSON") = Undefined) =>
        \A i \in DOMAIN log :
            log[i].k = "readFile" =>
                LegacyDelivered(log[i].name)
                    = IF Prop(arg.options, "parseJSON") = Bool(FALSE)
                      THEN Text(log[i].os.val.bytes)
                      ELSE IF JSONParse(log[i].os.val.bytes).ok
                      THEN JSONParse(log[i].os.val.bytes).val
                      ELSE Text(log[i].os.val.bytes)

\* C24: for every content of an existing secret, readSecretSync with
\* asTextOrJSON('utf8') gives the value the 1.x readSecretSync gives with
\* {encoding: 'utf8', ignoreJSON: false}: the parsed JSON, or the text.
C24_AsTextOrJSONEmulatesLegacy ==
    (/\ op = "readSecretSync"
     /\ arg = Function("asTextOrJSON")
     /\ pc = "done"
     /\ log[1].os.ok) =>
        outcome = Ok(LegacyValue(LegacyOpts(Obj([ignoreJSON |-> Bool(FALSE)])),
                                 log[1].os.val.bytes))

\* C29: a 1.x asynchronous read given a callback calls it exactly once after
\* its promise has settled: callback(false, result) when it was fulfilled,
\* callback(err) when it was rejected, also for a callback that throws when
\* handed the result.
C29_CallbackCalledOnce ==
    (/\ op \in LegacyAsyncOps
     /\ pc = "done"
     /\ arg.callback # "none"
     /\ outcome # None) =>
        /\ Cardinality(CallbackCalls) = 1
        /\ \A i \in CallbackCalls :
              log[i] = IF outcome.ok THEN CallbackEvent(Bool(FALSE), outcome.val)
                       ELSE CallbackEvent(outcome.err, Undefined)

\* C30: when the listing or a file read of a 1.x asynchronous read fails, the
\* promise is rejected with that error (the callback gets it as its error
\* argument), no exception escapes the promise, and the promise is not
\* fulfilled.
C30_ReadErrorOnlyRejects ==
    (op \in LegacyAsyncOps /\ FailedReads # {}) =>
        LET first == CHOOSE i \in FailedReads : \A j \in FailedReads : i <= j IN
        /\ outcome = log[first].os
        /\ \A i \in DOMAIN log : log[i].k # "uncaught"
        /\ \A i \in CallbackCalls : log[i] = CallbackEvent(log[first].os.err, Undefined)

(***************************************************************************)
(* Properties of the DSSReader synchronous operations                       *)
(***************************************************************************)
\* what DSSReader.readSecret(n, interpreter) resolves to, or rejects with, on
\* the directory as it is
DSSReadSecretCompletion(n, interpreter) ==
    LET file == readFileIgnoreMissing(n)
        f == IF interpreter = Undefined
             THEN CallFunction(Function("DSS.asBufferFactory"), Undefined).val
             ELSE interpreter
        secret == CallFunction(f, RawSecret(n, file.val)) IN
    IF ~file.ok THEN file
    ELSE IF secret.ok THEN Ok(DSSSecret(n, file.val, secret.val))
    ELSE secret

\* C28: DSSReader.readSecretSync returns the result readSecret resolves to for
\* the same directory and interpreter, and throws what readSecret rejects
\* with; readSecretsSync hands back its result directly, not as a promise, and
\* fails with the error of a listing or file read that failed.
C28_DSSSyncMatchesAsync ==
    /\ (pc = "done" /\ op = "DSS.readSecretSync") =>
          outcome = DSSReadSecretCompletion(name, arg)
    /\ (pc = "done" /\ op = "DSS.readSecretsSync") =>
          /\ outcome.ok => outcome.val.t = "array"
          /\ FailedReads # {} => ~outcome.ok /\ \E i \in FailedReads : outcome = log[i].os

====
